---- MODULE Spec2Model ----
(***************************************************************************)
(* Model of sdk/python/kfp/compiler/_component_builder.py:                 *)
(*   - the dependency ledger (VersionedDependency, DependencyHelper),      *)
(*   - the code generator and the entrypoint synthesizer                   *)
(*     (CodeGenerator, _func_to_entrypoint),                               *)
(*   - the remote build pipeline (ImageBuilder, build_python_component,    *)
(*     build_docker_image).                                                *)
(* Python strings are modelled as TLA+ strings when the code only compares *)
(* or concatenates them as a whole, and as sequences of tokens when the    *)
(* code looks inside them (startswith, rstrip, join).  Python's None is    *)
(* the string "None".                                                      *)
(***************************************************************************)
EXTENDS Integers, Sequences, FiniteSets, TLC

VARIABLES
    pc,                 \* position of the build call
    inp,                \* the arguments of the call
    err,                \* the exception propagating to the caller ("none" if none)
    builder,            \* the ImageBuilder object's fields
    local_build_dir,    \* the set of scratch directories that exist on disk
    files,              \* what the call has written into its scratch directory
    entrypoint,         \* how the call of _func_to_entrypoint ended
    gcs,                \* the blobs present in object storage
    trace,              \* the archive / upload / run_job / remove steps performed, in order
    job,                \* how the job-runner call ended
    component_spec,     \* the descriptor built by _generate_pythonop
    python_packages,    \* DependencyHelper._dependency['PYTHON_PACKAGE'] (an OrderedDict)
    adds,               \* history: the add_python_package calls made so far
    requirements,       \* the file written by generate_pip_requirements
    builders,           \* concurrent builds: the ImageBuilder objects constructed so far
    calls,              \* concurrent builds: each build call's position, builder and directory
    uuids,              \* concurrent builds: how many uuid4 identifiers were drawn
    tmpdirs,            \* concurrent builds: how many temporary directories were made
    blobs,              \* concurrent builds: staged location -> the call whose archive is there
    disk,               \* concurrent builds: local archive path -> the call that wrote it
    harmed,             \* history: calls whose archive another call overwrote or removed
    codegen,            \* a CodeGenerator object
    codegen_hist        \* history: the calls made on codegen since construction or last begin

vars == <<pc, inp, err, builder, local_build_dir, files, entrypoint, gcs, trace, job,
          component_spec, python_packages, adds, requirements,
          builders, calls, uuids, tmpdirs, blobs, disk, harmed, codegen, codegen_hist>>

build_vars == <<pc, inp, err, builder, local_build_dir, files, entrypoint, gcs, trace,
                job, component_spec>>

ledger_vars == <<python_packages, adds, requirements>>

conc_vars == <<builders, calls, uuids, tmpdirs, blobs, disk, harmed>>

codegen_vars == <<codegen, codegen_hist>>

----------------------------------------------------------------------------
(* Bounds of the model *)

MaxArgs == 2        \* positional parameters of a component function
MaxExtra == 1       \* keyword-only / variadic parameters of a component function
MaxFields == 2      \* fields of a named-tuple return type
MaxAdds == 3        \* add_python_package calls on one ledger

None == "None"

SeqUpTo(S, n) == UNION {[1..k -> S] : k \in 0..n}

RECURSIVE Rep(_, _)
Rep(x, n) == IF n <= 0 THEN <<>> ELSE <<x>> \o Rep(x, n - 1)

RECURSIVE Flatten(_)
Flatten(ss) == IF ss = <<>> THEN <<>> ELSE Head(ss) \o Flatten(Tail(ss))

Last(s) == s[Len(s)]

Front(s) == SubSeq(s, 1, Len(s) - 1)

(* str.rstrip(c) on a token sequence whose tokens are single characters or *)
(* strings that do not end in c                                            *)
RECURSIVE rstrip(_, _)
rstrip(s, c) == IF s # <<>> /\ Last(s) = c THEN rstrip(Front(s), c) ELSE s

(* str.startswith *)
startswith(s, prefix) ==
    /\ Len(s) >= Len(prefix)
    /\ SubSeq(s, 1, Len(prefix)) = prefix

----------------------------------------------------------------------------
(* VersionedDependency and DependencyHelper *)

VersionedDependency(name, version, min_version, max_version) ==
    IF version # None
    THEN [name |-> name, min_version |-> version, max_version |-> version]
    ELSE [name |-> name, min_version |-> min_version, max_version |-> max_version]

has_min_version(d) == d.min_version # None

has_max_version(d) == d.max_version # None

(* The OrderedDict is a sequence of [name, dep] items in insertion order. *)
Keys(od) == [i \in 1..Len(od) |-> od[i].name]

HasKey(od, k) == \E i \in 1..Len(od) : od[i].name = k

(* OrderedDict.__setitem__: a present key keeps its position *)
SetItem(od, k, v) ==
    IF HasKey(od, k)
    THEN [i \in 1..Len(od) |-> IF od[i].name = k THEN [name |-> k, dep |-> v] ELSE od[i]]
    ELSE Append(od, [name |-> k, dep |-> v])

add_python_package_always(packages, dependency, override) ==
    SetItem(packages, dependency.name, dependency)

add_python_package(packages, dependency, override) ==
    IF HasKey(packages, dependency.name) /\ ~override
    THEN packages
    ELSE SetItem(packages, dependency.name, dependency)

requirement_line_keep_comma(name, version) ==
    LET s1 == IF has_min_version(version)
              THEN <<" >= ", version.min_version, ",">> ELSE <<>>
        s2 == IF has_max_version(version)
              THEN s1 \o <<" <= ", version.max_version, ",">> ELSE s1
    IN  <<name>> \o s2 \o <<"\n">>

(* one iteration of the loop of generate_pip_requirements: the line written *)
requirement_line(name, version) ==
    LET s1 == IF has_min_version(version)
              THEN <<" >= ", version.min_version, ",">> ELSE <<>>
        s2 == IF has_max_version(version)
              THEN s1 \o <<" <= ", version.max_version, ",">> ELSE s1
    IN  <<name>> \o rstrip(s2, ",") \o <<"\n">>

generate_pip_requirements(packages) ==
    [i \in 1..Len(packages) |-> requirement_line(packages[i].name, packages[i].dep)]

RECURSIVE AddAll(_, _)
AddAll(packages, dependency) ==
    IF dependency = <<>> THEN packages
    ELSE AddAll(add_python_package(packages, Head(dependency), TRUE), Tail(dependency))

_dependency_to_requirements(dependency) ==
    generate_pip_requirements(AddAll(<<>>, dependency))

----------------------------------------------------------------------------
(* _generate_dockerfile.  The code compares python_version to 'python3' by *)
(* identity; for the interned literals callers pass this is equality.      *)

_generate_dockerfile(base_image, entrypoint_filename, python_version, requirement_filename) ==
    LET py3 == python_version = "python3"
    IN  << <<"FROM ", base_image, "\n">> >>
        \o << IF py3 THEN <<"RUN apt-get install python3 python3-pip python3-setuptools", "\n">>
                     ELSE <<"RUN apt-get install python python-pip python-setuptools", "\n">> >>
        \o (IF requirement_filename # None
            THEN << <<"ADD ", requirement_filename, " /ml/requirements.txt", "\n">>,
                    IF py3 THEN <<"RUN pip3 install -r /ml/requirements.txt", "\n">>
                           ELSE <<"RUN pip install -r /ml/requirements.txt", "\n">> >>
            ELSE <<>>)
        \o << <<"ADD ", entrypoint_filename, " /ml/main.py", "\n">> >>
        \o << IF py3 THEN <<"ENTRYPOINT [\"python3\", \"-u\", \"/ml/main.py\"]">>
                     ELSE <<"ENTRYPOINT [\"python\", \"-u\", \"/ml/main.py\"]">> >>

----------------------------------------------------------------------------
(* CodeGenerator: [indentation, code, level] *)

CodeGenerator(indentation) == [indentation |-> indentation, code |-> <<>>, level |-> 0]

begin(cg) == [cg EXCEPT !.code = <<>>, !.level = 0]

indent(cg) == [cg EXCEPT !.level = @ + 1]

dedent_possible_always(cg) == TRUE

dedent_possible(cg) == cg.level # 0

dedent(cg) == [cg EXCEPT !.level = @ - 1]

writeline(cg, line) ==
    [cg EXCEPT !.code = Append(@, Rep(cg.indentation, cg.level) \o line)]

(* end() joins the lines with '\n' and adds a final '\n': every line ends in one *)
end(cg) ==
    IF cg.code = <<>> THEN << <<"\n">> >>
    ELSE [i \in 1..Len(cg.code) |-> cg.code[i] \o <<"\n">>]

RECURSIVE writelines(_, _)
writelines(cg, lines) ==
    IF lines = <<>> THEN cg ELSE writelines(writeline(cg, Head(lines)), Tail(lines))

----------------------------------------------------------------------------
(* Component functions, as inspect.getfullargspec sees them.               *)
(* A function is [name, args, extra, ret]: args are the annotations of its *)
(* positional parameters in declared order, extra those of its             *)
(* keyword-only / variadic parameters, ret its return annotation.          *)
(* An annotation is [kind, name, fields]: kind "absent" (none written),    *)
(* "type" (a class, by name) or "namedtuple" (fields: the declared type of *)
(* each field, in field order).                                            *)

NoAnn == [kind |-> "absent", name |-> "", fields |-> <<>>]

Ty(n) == [kind |-> "type", name |-> n, fields |-> <<>>]

NamedTupleOf(fs) == [kind |-> "namedtuple", name |-> "NamedTuple", fields |-> fs]

SupportedTypes == {"int", "float", "str", "bool"}

ParamAnns == {NoAnn, Ty("int"), Ty("str")}

ExtraAnns == {NoAnn, Ty("int")}

FieldTypes == {"int", "list"}

ReturnAnns ==
    {NoAnn, Ty("int"), Ty("list")}
    \cup {NamedTupleOf(fs) : fs \in SeqUpTo(FieldTypes, MaxFields)}

Funcs ==
    [name : {"f"}, is_none : {FALSE}, args : SeqUpTo(ParamAnns, MaxArgs),
     extra : SeqUpTo(ExtraAnns, MaxExtra), ret : ReturnAnns]

NoneFunc == [name |-> None, is_none |-> TRUE, args |-> <<>>, extra |-> <<>>, ret |-> NoAnn]

ArgName(i) == "arg" \o ToString(i)

ExtraName(j) == "kw" \o ToString(j)

FieldName(k) == "field" \o ToString(k)

(* inspect.getfullargspec(f)[0]: the names of the positional parameters *)
fullargspec_args(f) == [i \in 1..Len(f.args) |-> ArgName(i)]

(* inspect.getfullargspec(f)[6]: the annotations dict, keyed by parameter *)
(* name (every kind of parameter) and by 'return'                         *)
fullargspec_annotations(f) ==
    LET A == {i \in 1..Len(f.args) : f.args[i] # NoAnn}
        E == {j \in 1..Len(f.extra) : f.extra[j] # NoAnn}
        keys == {ArgName(i) : i \in A} \cup {ExtraName(j) : j \in E}
                \cup (IF f.ret # NoAnn THEN {"return"} ELSE {})
    IN  [k \in keys |->
            IF k = "return" THEN f.ret
            ELSE IF \E i \in A : ArgName(i) = k
                 THEN f.args[CHOOSE i \in A : ArgName(i) = k]
                 ELSE f.extra[CHOOSE j \in E : ExtraName(j) = k]]

(* ann._fields and ann._field_types of a named-tuple class *)
_fields(ann) == [k \in 1..Len(ann.fields) |-> FieldName(k)]

_field_types(ann) == [n \in {FieldName(k) : k \in 1..Len(ann.fields)} |->
                        ann.fields[CHOOSE k \in 1..Len(ann.fields) : FieldName(k) = n]]

hasattr_fields(ann) == ann.kind = "namedtuple"

----------------------------------------------------------------------------
(* _func_to_entrypoint *)

NoCode == [source |-> <<>>, wrapper |-> <<>>, cli |-> <<>>]

(* the outcome of a synthesis: the exception raised ("none" if it returned), *)
(* whether code generation had begun, and the program returned               *)
Raised(e, started) == [err |-> e, started |-> started, code |-> NoCode]

(* lines 189-193: inputs is annotations without 'return'; the check compares counts *)
inputs_of(annotations) ==
    [k \in (DOMAIN annotations) \ {"return"} |-> annotations[k]]

inputs_annotated(f) ==
    Len(fullargspec_args(f)) = Cardinality(DOMAIN inputs_of(fullargspec_annotations(f)))

output_type_supported_scalars_only(f) ==
    LET annotations == fullargspec_annotations(f)
    IN  ~ ("return" \in DOMAIN annotations
           /\ ~ (annotations["return"].kind = "type"
                 /\ annotations["return"].name \in SupportedTypes)
           /\ ~ hasattr_fields(annotations["return"]))

(* lines 194-201: the two checks of the return annotation *)
output_type_supported(f) ==
    LET annotations == fullargspec_annotations(f)
        has_return == "return" \in DOMAIN annotations
        output_is_named_tuple == has_return /\ hasattr_fields(annotations["return"])
    IN  /\ ~ (has_return
              /\ ~ (annotations["return"].kind = "type"
                    /\ annotations["return"].name \in SupportedTypes)
              /\ ~ output_is_named_tuple)
        /\ output_is_named_tuple =>
               LET output == annotations["return"]
                   types == _field_types(output)
               IN  \A k \in 1..Len(_fields(output)) :
                       types[_fields(output)[k]] \in SupportedTypes

(* lines 213-220 *)
func_signature(f, output_is_named_tuple) ==
    <<"def ", "wrapper_" \o f.name, "(">>
    \o Flatten([i \in 1..Len(fullargspec_args(f)) |-> <<fullargspec_args(f)[i], ",">>])
    \o <<IF output_is_named_tuple THEN "_output_files" ELSE "_output_file">>
    \o <<"):">>

(* lines 224-230; defined when every positional parameter is a key of inputs *)
call_component_func(f, inputs, output_is_named_tuple) ==
    rstrip(<<IF output_is_named_tuple THEN "outputs" ELSE "output", " = ", f.name, "(">>
           \o Flatten([i \in 1..Len(fullargspec_args(f)) |->
                  <<inputs[fullargspec_args(f)[i]].name, "(", fullargspec_args(f)[i], ")", ",">>]),
           ",")
    \o <<")">>

(* lines 213-242 *)
wrapper_code(f, inputs, output_is_named_tuple, indentation) ==
    LET c1 == writeline(begin(CodeGenerator(indentation)),
                        func_signature(f, output_is_named_tuple))
        c2 == writeline(indent(c1), call_component_func(f, inputs, output_is_named_tuple))
        c3 == writeline(c2, <<"import os">>)
        c4 == IF output_is_named_tuple
              THEN indent(writeline(c3,
                       <<"for _output_file, output in zip(_output_files, outputs):">>))
              ELSE c3
        c5 == writelines(c4, << <<"os.makedirs(os.path.dirname(_output_file))">>,
                                <<"with open(_output_file, \"w\") as data:">> >>)
        c6 == writeline(indent(c5), <<"data.write(str(output))">>)
    IN  c6

(* lines 250-253: the output-file argument of the CLI parser *)
cli_output_argument(annotations, output_is_named_tuple) ==
    IF output_is_named_tuple
    THEN <<"parser.add_argument(\"", "_output_files", "\", type=", "str", ", nargs=",
           ToString(Len(_fields(annotations["return"]))), ")">>
    ELSE <<"parser.add_argument(\"", "_output_file", "\", type=", "str", ")">>

(* lines 248-249: one add_argument line per positional parameter *)
cli_input_arguments(f, inputs) ==
    [i \in 1..Len(fullargspec_args(f)) |->
        <<"parser.add_argument(\"", fullargspec_args(f)[i], "\", type=",
          inputs[fullargspec_args(f)[i]].name, ")">>]

(* lines 244-258, continuing on the generator that wrote the wrapper *)
cli_code(cg, f, inputs, annotations, output_is_named_tuple) ==
    LET c1 == writelines(begin(cg),
                  << <<"import argparse">>,
                     <<"parser = argparse.ArgumentParser(description=\"Parsing arguments\")">> >>)
        c2 == writelines(c1, cli_input_arguments(f, inputs))
        c3 == writeline(c2, cli_output_argument(annotations, output_is_named_tuple))
        c4 == writelines(c3, << <<"args = vars(parser.parse_args())">>,
                                <<"">>,
                                <<"if __name__ == \"__main__\":">> >>)
        c5 == writeline(indent(c4), <<"wrapper_" \o f.name, "(**args)">>)
    IN  c5

(* lines 260-271: the function's source from its def line on; python2 gets *)
(* the def line rewritten without annotations                              *)
dedecorated_component_src(f, python_version, output_is_named_tuple) ==
    (IF output_is_named_tuple THEN <<"from typing import NamedTuple\n">> ELSE <<>>)
    \o (IF python_version = "python2"
        THEN <<"def ", f.name, "(">>
             \o Flatten([i \in 1..Len(fullargspec_args(f)) |->
                    IF i = 1 THEN <<fullargspec_args(f)[i]>>
                    ELSE <<", ", fullargspec_args(f)[i]>>])
             \o <<"):">>
        ELSE <<"def ", f.name, "(...annotated...):">>)
    \o <<"...body of ", f.name>>

_func_to_entrypoint(f, python_version) ==
    LET annotations == fullargspec_annotations(f)
        input_args == fullargspec_args(f)
        inputs == inputs_of(annotations)
        output_is_named_tuple ==
            "return" \in DOMAIN annotations /\ hasattr_fields(annotations["return"])
    IN  IF python_version \notin {"python2", "python3"}
        THEN Raised("ValueError", FALSE)
        ELSE IF ~ inputs_annotated(f)
        THEN Raised("Some input arguments do not contain annotations.", FALSE)
        ELSE IF ~ output_type_supported(f)
        THEN Raised("Output type not supported", FALSE)
        ELSE IF \E i \in 1..Len(input_args) : input_args[i] \notin DOMAIN inputs
        THEN \* line 228: inputs[input_arg] after the signature line was written
             Raised("KeyError", TRUE)
        ELSE LET w == wrapper_code(f, inputs, output_is_named_tuple, "\t")
                 c == cli_code(w, f, inputs, annotations, output_is_named_tuple)
             IN  [err |-> "none", started |-> TRUE,
                  code |-> [source |-> dedecorated_component_src(f, python_version,
                                                                 output_is_named_tuple),
                            wrapper |-> end(w),
                            cli |-> end(c)]]

----------------------------------------------------------------------------
(* _generate_pythonop: the inputs, outputs and argument template of the   *)
(* component descriptor                                                    *)

NoSpec == [inputs |-> <<>>, outputs |-> <<>>, args |-> <<>>, image |-> None]

_generate_pythonop(f, target_image) ==
    LET input_names == fullargspec_args(f)
        return_ann == f.ret     \* inspect.signature(f).return_annotation
        output_is_named_tuple == hasattr_fields(return_ann)
        output_names == IF output_is_named_tuple THEN _fields(return_ann) ELSE <<"output">>
    IN  [inputs |-> [i \in 1..Len(input_names) |-> [name |-> input_names[i], type |-> "str"]],
         outputs |-> [i \in 1..Len(output_names) |-> [name |-> output_names[i], type |-> "str"]],
         args |-> [i \in 1..Len(input_names) |-> <<"InputValuePlaceholder", input_names[i]>>]
                  \o [i \in 1..Len(output_names) |-> <<"OutputPathPlaceholder", output_names[i]>>],
         image |-> target_image]

----------------------------------------------------------------------------
(* ImageBuilder *)

NoBuilder == [_tarball_filename |-> "", _gcs_base |-> <<>>, _gcs_path |-> <<>>,
              _target_image |-> None]

NoFiles == [written |-> {}, main_py |-> NoCode, requirements_txt |-> <<>>,
            dockerfile |-> <<>>, tarball |-> {}]

NoEntrypoint == [applied |-> FALSE, err |-> "none", started |-> FALSE, code |-> NoCode]

(* str(uuid.uuid4()): the n-th identifier drawn in the process *)
uuid4(n) == "uuid" \o ToString(n)

(* os.path.join of a directory and a file name *)
path_join(base, filename) ==
    IF base # <<>> /\ Last(base) = "/" THEN base \o <<filename>>
    ELSE base \o <<"/", filename>>

_check_gcs_path(gcs_path) == startswith(gcs_path, <<"g", "s", ":", "/", "/">>)

_generate_kaniko_spec_dir(namespace, arc_dockerfile_name, gcs_path, target_image) ==
    [namespace |-> namespace,
     args |-> << <<"--cache=true">>,
                 <<"--dockerfile=", arc_dockerfile_name>>,
                 <<"--context=">> \o Front(Front(gcs_path)),
                 <<"--destination=", target_image>> >>]

_generate_kaniko_spec(namespace, arc_dockerfile_name, gcs_path, target_image) ==
    [namespace |-> namespace,
     args |-> << <<"--cache=true">>,
                 <<"--dockerfile=", arc_dockerfile_name>>,
                 <<"--context=">> \o gcs_path,
                 <<"--destination=", target_image>> >>]

(* _prepare_buildfiles: the archive member names *)
_prepare_buildfiles(has_python, has_requirement) ==
    {"dockerfile"} \cup (IF has_python THEN {"main.py"} ELSE {})
                   \cup (IF has_requirement THEN {"requirements.txt"} ELSE {})

(* tempfile.TemporaryDirectory: entering creates the directory, leaving    *)
(* the with block (normally or by an exception) removes it                 *)
TempDirName == "tmpdir1"

EnterTempDir(dirs) == dirs \cup {TempDirName}

ExitTempDir_leak(dirs) == dirs

ExitTempDir(dirs) == dirs \ {TempDirName}

(* The external collaborators, which are not part of this file.  An upload *)
(* or a removal either completes or raises; the job runner reports the     *)
(* job's end either by returning or by raising.                            *)
UploadOutcomes == {"ok", "raised"}

JobOutcomes ==
    {[status |-> "succeeded", raised |-> FALSE]}
    \cup [status : {"failed", "timeout"}, raised : BOOLEAN]

NoJob == [status |-> "none", raised |-> FALSE]

RemoveOutcomes == {"ok", "raised"}

Event(op, arg, outcome) == [op |-> op, arg |-> arg, outcome |-> outcome]

----------------------------------------------------------------------------
(* The arguments of a call of build_python_component or build_docker_image *)

StagingPaths == {<<"g", "s", ":", "/", "/", "b">>, <<"/", "b">>}

NoPath == <<None>>

FuncInputs ==
    [entry : {"build_python_component"},
     component_func : Funcs \cup {NoneFunc},
     target_image : {None, "img"},
     base_image : {None, "base"},
     component_base_image : {None, "base"},
     staging_gcs_path : StagingPaths \cup {NoPath},
     build_image : BOOLEAN,
     python_version : {"python2", "python3", "python4"}]

DockerfileInputs ==
    [entry : {"build_docker_image"},
     component_func : {NoneFunc},
     target_image : {"img"},
     base_image : {None},
     component_base_image : {None},
     staging_gcs_path : StagingPaths \cup {NoPath},
     build_image : {TRUE},
     python_version : {"python3"}]

NoInput == [entry |-> "none", component_func |-> NoneFunc, target_image |-> None,
            base_image |-> None, component_base_image |-> None,
            staging_gcs_path |-> NoPath, build_image |-> FALSE, python_version |-> None]

----------------------------------------------------------------------------
(* The build call, step by step.  Local code between two calls of an       *)
(* external collaborator is one step; an exception unwinds to the caller   *)
(* within the step that raises it, leaving the with block on its way.      *)

Exited == {"returned", "raised"}

InitBuild(inputs) ==
    /\ pc = "call"
    /\ inp \in inputs
    /\ err = "none"
    /\ builder = NoBuilder
    /\ local_build_dir = {}
    /\ files = NoFiles
    /\ entrypoint = NoEntrypoint
    /\ gcs = {}
    /\ trace = <<>>
    /\ job = NoJob
    /\ component_spec = NoSpec

Raise(e) ==
    /\ pc' = "raised"
    /\ err' = e

(* lines 496-518 of build_python_component *)
build_python_component ==
    /\ pc = "call"
    /\ inp.entry = "build_python_component"
    /\ IF inp.component_func.is_none
       THEN Raise("ValueError: component_func must not be None")
       ELSE IF inp.target_image = None
       THEN Raise("ValueError: target_image must not be None")
       ELSE IF inp.python_version \notin {"python2", "python3"}
       THEN Raise("ValueError: python_version")
       ELSE IF ~ inp.build_image
       THEN pc' = "pythonop" /\ err' = err
       ELSE IF inp.staging_gcs_path = NoPath
       THEN Raise("ValueError: staging_gcs_path must not be None")
       ELSE IF inp.base_image = None /\ inp.component_base_image = None
       THEN Raise("ValueError: base_image must not be None")
       ELSE pc' = "init" /\ err' = err
    /\ UNCHANGED <<inp, builder, local_build_dir, files, entrypoint, gcs, trace, job, component_spec>>
    /\ UNCHANGED <<ledger_vars, conc_vars, codegen_vars>>

(* line 537 of build_docker_image *)
build_docker_image ==
    /\ pc = "call"
    /\ inp.entry = "build_docker_image"
    /\ pc' = "init"
    /\ UNCHANGED <<inp, err, builder, local_build_dir, files, entrypoint, gcs, trace, job,
                   component_spec>>
    /\ UNCHANGED <<ledger_vars, conc_vars, codegen_vars>>

(* the base image build_python_component passes on (lines 510-511) *)
base_image_of(i) == IF i.base_image = None THEN i.component_base_image ELSE i.base_image

(* ImageBuilder.__init__, called at line 519 or 538 *)
ImageBuilder_init ==
    /\ pc = "init"
    /\ LET tarball_filename == uuid4(1) \o ".tar.gz"
       IN  IF inp.staging_gcs_path = NoPath
           THEN \* None.startswith
                Raise("AttributeError") /\ builder' = builder
           ELSE IF ~ _check_gcs_path(inp.staging_gcs_path)
           THEN Raise("ImageBuild __init__ failure.") /\ builder' = builder
           ELSE /\ builder' = [_tarball_filename |-> tarball_filename,
                               _gcs_base |-> inp.staging_gcs_path,
                               _gcs_path |-> path_join(inp.staging_gcs_path, tarball_filename),
                               _target_image |-> inp.target_image]
                /\ pc' = IF inp.entry = "build_python_component"
                         THEN "build_image_from_func" ELSE "build_image_from_dockerfile"
                /\ err' = err
    /\ UNCHANGED <<inp, local_build_dir, files, entrypoint, gcs, trace, job, component_spec>>
    /\ UNCHANGED <<ledger_vars, conc_vars, codegen_vars>>

(* lines 380-382: the version check, then the with block is entered *)
build_image_from_func_enter ==
    /\ pc = "build_image_from_func"
    /\ IF inp.python_version \notin {"python2", "python3"}
       THEN Raise("ValueError: python_version") /\ local_build_dir' = local_build_dir
       ELSE /\ local_build_dir' = EnterTempDir(local_build_dir)
            /\ pc' = "generate"
            /\ err' = err
    /\ UNCHANGED <<inp, builder, files, entrypoint, gcs, trace, job, component_spec>>
    /\ UNCHANGED <<ledger_vars, conc_vars, codegen_vars>>

DependencyLists ==
    {<<>>, <<VersionedDependency("p", "1.0", None, None),
             VersionedDependency("q", None, "2.0", None)>>}

(* lines 383-400: entrypoint, requirements, dockerfile and the archive *)
build_image_from_func_generate ==
    /\ pc = "generate"
    /\ \E dependency \in DependencyLists, io_ok \in BOOLEAN :
         LET complete_component_code ==
                 _func_to_entrypoint(inp.component_func, inp.python_version)
         IN  /\ entrypoint' = [applied |-> TRUE,
                                err |-> complete_component_code.err,
                                started |-> complete_component_code.started,
                                code |-> complete_component_code.code]
             /\ IF complete_component_code.err # "none"
                THEN /\ Raise(complete_component_code.err)
                     /\ local_build_dir' = ExitTempDir(local_build_dir)
                     /\ UNCHANGED <<files, trace>>
                ELSE IF ~ io_ok
                THEN /\ Raise("OSError")
                     /\ local_build_dir' = ExitTempDir(local_build_dir)
                     /\ UNCHANGED <<files, trace>>
                ELSE /\ files' = [written |-> {"main.py", "requirements.txt", "dockerfile",
                                               "docker.tmp.tar.gz"},
                                  main_py |-> complete_component_code.code,
                                  requirements_txt |-> _dependency_to_requirements(dependency),
                                  dockerfile |-> _generate_dockerfile(base_image_of(inp),
                                                     "main.py", inp.python_version,
                                                     "requirements.txt"),
                                  tarball |-> _prepare_buildfiles(TRUE, TRUE)]
                     /\ trace' = Append(trace, Event("archive",
                                     <<TempDirName, "/", "docker.tmp.tar.gz">>, "ok"))
                     /\ pc' = "upload"
                     /\ UNCHANGED <<err, local_build_dir>>
    /\ UNCHANGED <<inp, builder, gcs, job, component_spec>>
    /\ UNCHANGED <<ledger_vars, conc_vars, codegen_vars>>

(* lines 405-409: the with block is entered and the dockerfile archived *)
build_image_from_dockerfile_enter ==
    /\ pc = "build_image_from_dockerfile"
    /\ \E io_ok \in BOOLEAN :
         IF ~ io_ok
         THEN \* tarball.add of a dockerfile that cannot be read
              /\ Raise("OSError")
              /\ local_build_dir' = ExitTempDir(EnterTempDir(local_build_dir))
              /\ UNCHANGED <<files, trace>>
         ELSE /\ local_build_dir' = EnterTempDir(local_build_dir)
              /\ files' = [NoFiles EXCEPT !.written = {"docker.tmp.tar.gz"},
                                          !.tarball = _prepare_buildfiles(FALSE, FALSE)]
              /\ trace' = Append(trace, Event("archive",
                              <<TempDirName, "/", "docker.tmp.tar.gz">>, "ok"))
              /\ pc' = "upload"
              /\ err' = err
    /\ UNCHANGED <<inp, builder, entrypoint, gcs, job, component_spec>>
    /\ UNCHANGED <<ledger_vars, conc_vars, codegen_vars>>

(* where the call continues once the with block is left normally *)
AfterBuild == IF inp.entry = "build_python_component" THEN "pythonop" ELSE "returned"

(* line 360: GCSHelper.upload_gcs_file(local_tarball_path, self._gcs_path) *)
upload_gcs_file ==
    /\ pc = "upload"
    /\ \E outcome \in UploadOutcomes :
         /\ trace' = Append(trace, Event("upload", builder._gcs_path, outcome))
         /\ IF outcome = "ok"
            THEN /\ gcs' = gcs \cup {builder._gcs_path}
                 /\ pc' = "run_job"
                 /\ UNCHANGED <<err, local_build_dir>>
            ELSE /\ Raise("upload_gcs_file failed")
                 /\ local_build_dir' = ExitTempDir(local_build_dir)
                 /\ gcs' = gcs
    /\ UNCHANGED <<inp, builder, files, entrypoint, job, component_spec>>
    /\ UNCHANGED <<ledger_vars, conc_vars, codegen_vars>>

(* lines 361-370: the job descriptor is built and run_job blocks on it *)
run_job ==
    /\ pc = "run_job"
    /\ \E outcome \in JobOutcomes :
         LET kaniko_spec == _generate_kaniko_spec("kubeflow", "dockerfile",
                                                  builder._gcs_path, builder._target_image)
         IN  /\ trace' = Append(trace, Event("run_job", kaniko_spec.args[3], outcome.status))
             /\ job' = outcome
             /\ IF outcome.raised
                THEN /\ Raise("run_job failed")
                     /\ local_build_dir' = ExitTempDir(local_build_dir)
                ELSE /\ pc' = "remove"
                     /\ UNCHANGED <<err, local_build_dir>>
    /\ UNCHANGED <<inp, builder, files, entrypoint, gcs, component_spec>>
    /\ UNCHANGED <<ledger_vars, conc_vars, codegen_vars>>

(* line 373: GCSHelper.remove_gcs_blob(self._gcs_path); then _build_image *)
(* returns and the with block is left                                     *)
remove_gcs_blob ==
    /\ pc = "remove"
    /\ \E outcome \in RemoveOutcomes :
         /\ trace' = Append(trace, Event("remove", builder._gcs_path, outcome))
         /\ local_build_dir' = ExitTempDir(local_build_dir)
         /\ IF outcome = "ok"
            THEN /\ gcs' = gcs \ {builder._gcs_path}
                 /\ pc' = AfterBuild
                 /\ err' = err
            ELSE /\ Raise("remove_gcs_blob failed")
                 /\ gcs' = gcs
    /\ UNCHANGED <<inp, builder, files, entrypoint, job, component_spec>>
    /\ UNCHANGED <<ledger_vars, conc_vars, codegen_vars>>

(* line 524: the descriptor is built and the task factory returned *)
generate_pythonop ==
    /\ pc = "pythonop"
    /\ component_spec' = _generate_pythonop(inp.component_func, inp.target_image)
    /\ pc' = "returned"
    /\ UNCHANGED <<inp, err, builder, local_build_dir, files, entrypoint, gcs, trace, job>>
    /\ UNCHANGED <<ledger_vars, conc_vars, codegen_vars>>

----------------------------------------------------------------------------
(* The dependency ledger on its own *)

PackageNames == {"p", "q"}

NotWritten == [written |-> FALSE, lines |-> <<>>, packages |-> <<>>]

InitLedger ==
    /\ python_packages = <<>>
    /\ adds = <<>>
    /\ requirements = NotWritten

(* DependencyHelper.add_python_package(VersionedDependency(...), override) *)
AddPythonPackage ==
    /\ Len(adds) < MaxAdds
    /\ \E name \in PackageNames, version \in {None, "1.5"}, min_version \in {None, "1.0"},
          max_version \in {None, "2.0"}, override \in BOOLEAN :
         LET dependency == VersionedDependency(name, version, min_version, max_version)
         IN  /\ python_packages' = add_python_package(python_packages, dependency, override)
             /\ adds' = Append(adds, [dependency |-> dependency, override |-> override])
    /\ UNCHANGED requirements
    /\ UNCHANGED <<build_vars, conc_vars, codegen_vars>>

(* DependencyHelper.generate_pip_requirements(target_file) *)
GeneratePipRequirements ==
    /\ requirements' = [written |-> TRUE,
                        lines |-> generate_pip_requirements(python_packages),
                        packages |-> python_packages]
    /\ UNCHANGED <<python_packages, adds>>
    /\ UNCHANGED <<build_vars, conc_vars, codegen_vars>>

----------------------------------------------------------------------------
(* Several build calls in one process *)

MaxCalls == 2       \* build calls in one process

Calls == 1..MaxCalls

NoCall == [pc |-> "idle", builder |-> 0, dir |-> "", context |-> 0]

NoConcurrentBuilds ==
    /\ builders = <<>>
    /\ calls = <<>>
    /\ uuids = 0
    /\ tmpdirs = 0
    /\ blobs = {}
    /\ disk = {}
    /\ harmed = {}

(* ImageBuilder.__init__ with a valid gcs_base, when the process draws its *)
(* n-th identifier: the archive name and the staged location are fixed    *)
(* here, once for the object                                               *)
ImageBuilder(gcs_base, target_image, n) ==
    [_tarball_filename |-> uuid4(n) \o ".tar.gz",
     _gcs_base |-> gcs_base,
     _gcs_path |-> path_join(gcs_base, uuid4(n) \o ".tar.gz"),
     _target_image |-> target_image]

(* tempfile.TemporaryDirectory(): the n-th directory made in the process *)
mkdtemp(n) == "tmpdir" \o ToString(n)

(* os.path.join(local_build_dir, 'docker.tmp.tar.gz') *)
local_tarball_path(dir) == path_join(<<dir>>, "docker.tmp.tar.gz")

(* a store that holds one object per path: writing replaces, removing deletes *)
Remove(store, path) == {o \in store : o.path # path}

Put(store, path, owner) == Remove(store, path) \cup {[path |-> path, owner |-> owner]}

(* the call whose archive lies at the path, 0 when nothing lies there *)
OwnerAt(store, path) ==
    IF \E o \in store : o.path = path
    THEN (CHOOSE o \in store : o.path = path).owner
    ELSE 0

(* a call is in progress on its staged archive from its upload until its *)
(* own removal                                                            *)
InProgress(c) == calls[c].pc \in {"run_job", "remove"}

gcs_path_of(c) == builders[calls[c].builder]._gcs_path

(* the calls, other than c, whose staged archive lies at c's location *)
(* while they are still in progress                                   *)
OthersAt(c) == {d \in Calls \ {c} : d = OwnerAt(blobs, gcs_path_of(c)) /\ InProgress(d)}

ValidBases == {p \in StagingPaths : _check_gcs_path(p)}

(* a builder is constructed for the call, as build_python_component and *)
(* build_docker_image do (lines 519, 538)                                *)
CallOnNewBuilder(c) ==
    /\ calls[c].pc = "idle"
    /\ \E gcs_base \in ValidBases :
         builders' = Append(builders, ImageBuilder(gcs_base, "gcr.io/p/img", uuids + 1))
    /\ uuids' = uuids + 1
    /\ calls' = [calls EXCEPT ![c] = [@ EXCEPT !.pc = "enter", !.builder = Len(builders) + 1]]
    /\ UNCHANGED <<tmpdirs, blobs, disk, harmed>>
    /\ UNCHANGED <<build_vars, ledger_vars, codegen_vars>>

(* a build method is called on an ImageBuilder object that exists already *)
CallOnBuilder(c, b) ==
    /\ calls[c].pc = "idle"
    /\ b \in 1..Len(builders)
    /\ calls' = [calls EXCEPT ![c] = [@ EXCEPT !.pc = "enter", !.builder = b]]
    /\ UNCHANGED <<builders, uuids, tmpdirs, blobs, disk, harmed>>
    /\ UNCHANGED <<build_vars, ledger_vars, codegen_vars>>

(* lines 382-399, 405-408: the call makes its directory and writes the *)
(* archive in it                                                       *)
EnterBuild(c) ==
    /\ calls[c].pc = "enter"
    /\ tmpdirs' = tmpdirs + 1
    /\ disk' = Put(disk, local_tarball_path(mkdtemp(tmpdirs + 1)), c)
    /\ calls' = [calls EXCEPT ![c] = [@ EXCEPT !.pc = "upload", !.dir = mkdtemp(tmpdirs + 1)]]
    /\ UNCHANGED <<builders, uuids, blobs, harmed>>
    /\ UNCHANGED <<build_vars, ledger_vars, codegen_vars>>

(* leaving the with block removes the directory and the archive in it *)
LeaveBuild(c) == Remove(disk, local_tarball_path(calls[c].dir))

(* line 360 *)
Upload(c) ==
    /\ calls[c].pc = "upload"
    /\ \E outcome \in UploadOutcomes :
         IF outcome = "ok"
         THEN /\ blobs' = Put(blobs, gcs_path_of(c),
                             OwnerAt(disk, local_tarball_path(calls[c].dir)))
              /\ harmed' = harmed \cup OthersAt(c)
              /\ calls' = [calls EXCEPT ![c] = [@ EXCEPT !.pc = "run_job"]]
              /\ disk' = disk
         ELSE /\ calls' = [calls EXCEPT ![c] = [@ EXCEPT !.pc = "raised"]]
              /\ disk' = LeaveBuild(c)
              /\ UNCHANGED <<blobs, harmed>>
    /\ UNCHANGED <<builders, uuids, tmpdirs>>
    /\ UNCHANGED <<build_vars, ledger_vars, codegen_vars>>

(* lines 361-370: the job builds from whatever lies at the staged location *)
RunJob(c) ==
    /\ calls[c].pc = "run_job"
    /\ \E outcome \in JobOutcomes :
         /\ calls' = [calls EXCEPT ![c] = [@ EXCEPT
                         !.pc = IF outcome.raised THEN "raised" ELSE "remove",
                         !.context = OwnerAt(blobs, gcs_path_of(c))]]
         /\ disk' = IF outcome.raised THEN LeaveBuild(c) ELSE disk
    /\ UNCHANGED <<builders, uuids, tmpdirs, blobs, harmed>>
    /\ UNCHANGED <<build_vars, ledger_vars, codegen_vars>>

(* line 373, then the with block is left *)
RemoveBlob(c) ==
    /\ calls[c].pc = "remove"
    /\ \E outcome \in RemoveOutcomes :
         IF outcome = "ok"
         THEN /\ blobs' = Remove(blobs, gcs_path_of(c))
              /\ harmed' = harmed \cup OthersAt(c)
              /\ calls' = [calls EXCEPT ![c] = [@ EXCEPT !.pc = "returned"]]
         ELSE /\ calls' = [calls EXCEPT ![c] = [@ EXCEPT !.pc = "raised"]]
              /\ UNCHANGED <<blobs, harmed>>
    /\ disk' = LeaveBuild(c)
    /\ UNCHANGED <<builders, uuids, tmpdirs>>
    /\ UNCHANGED <<build_vars, ledger_vars, codegen_vars>>

----------------------------------------------------------------------------
(* A CodeGenerator on its own *)

MaxOps == 5         \* method calls made on one CodeGenerator

IndentUnits == {"\t", "  "}

CodeLines == {<<"pass">>, <<"\t", "x = 1">>}

(* what the caller has seen: the number of calls made, the indent calls   *)
(* and the dedent calls that returned since construction or the last      *)
(* begin, and the last call with its argument, its outcome and the object *)
(* it was made on                                                         *)
NoHist == [n |-> 0, indents |-> 0, dedents |-> 0, last |-> "none", raised |-> FALSE,
           line |-> <<>>, result |-> <<>>, prev_code |-> <<>>, prev_level |-> 0]

Called(op, raised, line, result) ==
    [codegen_hist EXCEPT !.n = @ + 1, !.last = op, !.raised = raised, !.line = line,
                         !.result = result,
                         !.prev_code = codegen.code, !.prev_level = codegen.level]

NoCodeGenerator ==
    /\ codegen = CodeGenerator("\t")
    /\ codegen_hist = NoHist

call_begin ==
    /\ codegen_hist.n < MaxOps
    /\ codegen' = begin(codegen)
    /\ codegen_hist' = [Called("begin", FALSE, <<>>, <<>>) EXCEPT !.indents = 0, !.dedents = 0]
    /\ UNCHANGED <<build_vars, ledger_vars, conc_vars>>

call_indent ==
    /\ codegen_hist.n < MaxOps
    /\ codegen' = indent(codegen)
    /\ codegen_hist' = [Called("indent", FALSE, <<>>, <<>>) EXCEPT !.indents = @ + 1]
    /\ UNCHANGED <<build_vars, ledger_vars, conc_vars>>

call_dedent ==
    /\ codegen_hist.n < MaxOps
    /\ IF dedent_possible(codegen)
       THEN /\ codegen' = dedent(codegen)
            /\ codegen_hist' = [Called("dedent", FALSE, <<>>, <<>>) EXCEPT !.dedents = @ + 1]
       ELSE \* raise Exception('CodeGenerator dedent error')
            /\ codegen' = codegen
            /\ codegen_hist' = Called("dedent", TRUE, <<>>, <<>>)
    /\ UNCHANGED <<build_vars, ledger_vars, conc_vars>>

call_writeline ==
    /\ codegen_hist.n < MaxOps
    /\ \E line \in CodeLines :
         /\ codegen' = writeline(codegen, line)
         /\ codegen_hist' = Called("writeline", FALSE, line, <<>>)
    /\ UNCHANGED <<build_vars, ledger_vars, conc_vars>>

call_end ==
    /\ codegen_hist.n < MaxOps
    /\ codegen' = codegen
    /\ codegen_hist' = Called("end", FALSE, <<>>, end(codegen))
    /\ UNCHANGED <<build_vars, ledger_vars, conc_vars>>

----------------------------------------------------------------------------
(* Specifications *)

Init ==
    /\ InitBuild(FuncInputs \cup DockerfileInputs)
    /\ InitLedger
    /\ NoConcurrentBuilds
    /\ NoCodeGenerator

Next ==
    \/ build_python_component
    \/ build_docker_image
    \/ ImageBuilder_init
    \/ build_image_from_func_enter
    \/ build_image_from_func_generate
    \/ build_image_from_dockerfile_enter
    \/ upload_gcs_file
    \/ run_job
    \/ remove_gcs_blob
    \/ generate_pythonop

Spec == Init /\ [][Next]_vars

InitL ==
    /\ InitLedger
    /\ pc = "idle"
    /\ inp = NoInput
    /\ err = "none"
    /\ builder = NoBuilder
    /\ local_build_dir = {}
    /\ files = NoFiles
    /\ entrypoint = NoEntrypoint
    /\ gcs = {}
    /\ trace = <<>>
    /\ job = NoJob
    /\ component_spec = NoSpec
    /\ NoConcurrentBuilds
    /\ NoCodeGenerator

NextL ==
    \/ AddPythonPackage
    \/ GeneratePipRequirements

SpecLedger == InitL /\ [][NextL]_vars

(* no call of build_python_component or build_docker_image is under way *)
NoBuildCall ==
    /\ pc = "idle"
    /\ inp = NoInput
    /\ err = "none"
    /\ builder = NoBuilder
    /\ local_build_dir = {}
    /\ files = NoFiles
    /\ entrypoint = NoEntrypoint
    /\ gcs = {}
    /\ trace = <<>>
    /\ job = NoJob
    /\ component_spec = NoSpec

InitConc ==
    /\ NoBuildCall
    /\ InitLedger
    /\ NoCodeGenerator
    /\ builders = <<>>
    /\ calls = [c \in Calls |-> NoCall]
    /\ uuids = 0
    /\ tmpdirs = 0
    /\ blobs = {}
    /\ disk = {}
    /\ harmed = {}

NextConc ==
    \/ \E c \in Calls : CallOnNewBuilder(c)
    \/ \E c \in Calls : \E b \in 1..MaxCalls : CallOnBuilder(c, b)
    \/ \E c \in Calls : EnterBuild(c)
    \/ \E c \in Calls : Upload(c)
    \/ \E c \in Calls : RunJob(c)
    \/ \E c \in Calls : RemoveBlob(c)

SpecConc == InitConc /\ [][NextConc]_vars

InitCodegen ==
    /\ NoBuildCall
    /\ InitLedger
    /\ NoConcurrentBuilds
    /\ \E indentation \in IndentUnits : codegen = CodeGenerator(indentation)
    /\ codegen_hist = NoHist

NextCodegen ==
    \/ call_begin
    \/ call_indent
    \/ call_dedent
    \/ call_writeline
    \/ call_end

SpecCodegen == InitCodegen /\ [][NextCodegen]_vars

----------------------------------------------------------------------------
(* What the claims speak of *)

EventsOf(op) == {i \in 1..Len(trace) : trace[i].op = op}

RemoteEvents == EventsOf("upload") \cup EventsOf("run_job") \cup EventsOf("remove")

Staged == \E i \in EventsOf("upload") : trace[i].outcome = "ok"

HasUnannotatedParam(f) ==
    \/ \E i \in 1..Len(f.args) : f.args[i] = NoAnn
    \/ \E j \in 1..Len(f.extra) : f.extra[j] = NoAnn

ReturnUnsupported(f) ==
    /\ f.ret # NoAnn
    /\ ~ (f.ret.kind = "type" /\ f.ret.name \in {"int", "float", "str", "bool"})
    /\ ~ (f.ret.kind = "namedtuple"
          /\ \A k \in 1..Len(f.ret.fields) : f.ret.fields[k] \in {"int", "float", "str", "bool"})

(* as many annotated parameters (of any kind) as positional parameters *)
AnnotationCountsMatch(f) ==
    Cardinality({i \in 1..Len(f.args) : f.args[i] # NoAnn})
    + Cardinality({j \in 1..Len(f.extra) : f.extra[j] # NoAnn}) = Len(f.args)

(* the add_argument lines of a CLI block, read back in order *)
IsAddArgument(line) == Len(line) >= 6 /\ line[1] = "parser.add_argument(\""

RECURSIVE ParsedArguments(_)
ParsedArguments(lines) ==
    IF lines = <<>> THEN <<>>
    ELSE (IF IsAddArgument(Head(lines))
          THEN << [name |-> Head(lines)[2], type |-> Head(lines)[4],
                   nargs |-> IF Head(lines)[5] = ", nargs=" THEN Head(lines)[6] ELSE "1"] >>
          ELSE <<>>)
         \o ParsedArguments(Tail(lines))

(* the parameters of f in declared order: positional, then keyword-only / variadic *)
DeclaredParams(f) ==
    [i \in 1..Len(f.args) |-> [name |-> ArgName(i), ann |-> f.args[i]]]
    \o [j \in 1..Len(f.extra) |-> [name |-> ExtraName(j), ann |-> f.extra[j]]]

----------------------------------------------------------------------------
(* C1: a build call that has staged its archive leaves no staged archive   *)
(* behind when it exits, however the job-runner call ended, having tried   *)
(* the removal once if the job runner was called, and never more than once *)
C1_StagedArchiveGoneAtExit ==
    (pc \in {"pythonop"} \cup Exited /\ Staged) =>
        /\ builder._gcs_path \notin gcs
        /\ Cardinality(EventsOf("remove")) <= 1
        /\ EventsOf("run_job") # {} => EventsOf("remove") # {}

(* C2: a failed removal is never raised: after a successful job the call   *)
(* still returns, and after a failed job the caller gets the job's error   *)
C2_RemovalFailureNotRaised ==
    /\ err # "remove_gcs_blob failed"
    /\ (pc \in Exited /\ job.status = "succeeded") => pc = "returned"
    /\ (pc \in Exited /\ job.raised) => err = "run_job failed"

InvalidCall(i) ==
    \/ i.python_version \notin {"python2", "python3"}
    \/ i.target_image = None
    \/ i.staging_gcs_path = NoPath
    \/ ~ startswith(i.staging_gcs_path, <<"g", "s", ":", "/", "/">>)
    \/ /\ i.entry = "build_python_component"
       /\ \/ i.component_func.is_none
          \/ i.base_image = None /\ i.component_base_image = None
          \/ HasUnannotatedParam(i.component_func)
          \/ ReturnUnsupported(i.component_func)

(* C3: a call asked to build with an invalid argument fails, and performs  *)
(* no upload, no job submission and no removal                             *)
C3_ValidationBeforeRemoteEffects ==
    (inp.build_image /\ InvalidCall(inp)) =>
        /\ RemoteEvents = {}
        /\ pc \notin {"pythonop", "returned"}

(* C4: synthesis of a function with an unannotated parameter fails with    *)
(* the annotation error, before any code is generated                      *)
C4_UnannotatedParamRejected ==
    (entrypoint.applied /\ HasUnannotatedParam(inp.component_func)) =>
        /\ entrypoint.err = "Some input arguments do not contain annotations."
        /\ ~ entrypoint.started

(* C5: synthesis fails with the output-type error exactly when the         *)
(* parameter check passed and the return annotation is present and is      *)
(* neither a supported scalar nor a named tuple of supported scalars; a    *)
(* function without return annotation never fails with it                  *)
C5_ReturnTypeCheck ==
    entrypoint.applied =>
        /\ entrypoint.err = "Output type not supported"
             <=> (AnnotationCountsMatch(inp.component_func)
                  /\ ReturnUnsupported(inp.component_func))
        /\ ~ AnnotationCountsMatch(inp.component_func)
             => entrypoint.err = "Some input arguments do not contain annotations."
        /\ inp.component_func.ret = NoAnn => entrypoint.err # "Output type not supported"

C5_Witness ==
    /\ entrypoint.applied
    /\ entrypoint.err = "Output type not supported"
    /\ inp.component_func.ret.kind = "namedtuple"
    /\ Len(inp.component_func.args) > 0

(* C6: the CLI parser of a synthesized program declares one argument per   *)
(* declared parameter, in order and typed per its annotation, and then the *)
(* output-file arguments: one, or as many as the named tuple has fields    *)
C6_CliMatchesSignature ==
    (entrypoint.applied /\ entrypoint.err = "none") =>
        LET f == inp.component_func
            params == DeclaredParams(f)
            parsed == ParsedArguments(entrypoint.code.cli)
        IN  /\ Len(parsed) = Len(params) + 1
            /\ \A i \in 1..Len(params) :
                   parsed[i] = [name |-> params[i].name, type |-> params[i].ann.name,
                                nargs |-> "1"]
            /\ Last(parsed).type = "str"
            /\ Last(parsed).nargs = IF f.ret.kind = "namedtuple"
                                    THEN ToString(Len(f.ret.fields)) ELSE "1"

----------------------------------------------------------------------------
(* The history of a ledger *)

AddedNames == [i \in 1..Len(adds) |-> adds[i].dependency.name]

RECURSIVE FirstOccurrences(_)
FirstOccurrences(names) ==
    IF names = <<>> THEN <<>>
    ELSE LET rest == FirstOccurrences(Front(names))
         IN  IF \E i \in 1..Len(rest) : rest[i] = Last(names)
             THEN rest ELSE Append(rest, Last(names))

AddsOf(n) == {i \in 1..Len(adds) : adds[i].dependency.name = n}

Max(S) == CHOOSE x \in S : \A y \in S : y <= x

Min(S) == CHOOSE x \in S : \A y \in S : x <= y

ExpectedDependency(n) ==
    LET overriding == {i \in AddsOf(n) : adds[i].override}
    IN  IF overriding # {} THEN adds[Max(overriding)].dependency
        ELSE adds[Min(AddsOf(n))].dependency

(* C7: the ledger's keys are unique and in the order of first insertion,   *)
(* and each maps to its latest overriding add, or else to its first add    *)
C7_LedgerEntries ==
    /\ \A i, j \in 1..Len(python_packages) :
           python_packages[i].name = python_packages[j].name => i = j
    /\ Keys(python_packages) = FirstOccurrences(AddedNames)
    /\ \A i \in 1..Len(python_packages) :
           python_packages[i].dep = ExpectedDependency(python_packages[i].name)

C7_Witness ==
    /\ Len(adds) = 3
    /\ Len(python_packages) = 2
    /\ adds[1].dependency.name = adds[3].dependency.name
    /\ adds[1].dependency # adds[3].dependency
    /\ ~ adds[3].override
    /\ python_packages[1].dep = adds[1].dependency

ExpectedLine(d) ==
    IF d.min_version # None /\ d.max_version # None
    THEN <<d.name, " >= ", d.min_version, ",", " <= ", d.max_version, "\n">>
    ELSE IF d.min_version # None
    THEN <<d.name, " >= ", d.min_version, "\n">>
    ELSE IF d.max_version # None
    THEN <<d.name, " <= ", d.max_version, "\n">>
    ELSE <<d.name, "\n">>

(* C8: the requirements file has one line per ledger entry, in the order   *)
(* of first insertion: the name, then " >= min" and " <= max" for the      *)
(* versions that are set, separated by a comma, with no trailing comma     *)
C8_RequirementLines ==
    requirements.written =>
        /\ Len(requirements.lines) = Len(requirements.packages)
        /\ \A i \in 1..Len(requirements.lines) :
               /\ requirements.lines[i] = ExpectedLine(requirements.packages[i].dep)
               /\ requirements.lines[i][1] = FirstOccurrences(AddedNames)[i]

C8_Witness ==
    /\ requirements.written
    /\ Len(requirements.lines) = 2
    /\ requirements.lines[1] = <<"p", " >= ", "1.5", ",", " <= ", "1.5", "\n">>
    /\ requirements.lines[2] = <<"q", " >= ", "1.0", "\n">>

----------------------------------------------------------------------------
(* C9: the steps of a build come in the order archive, upload, job,        *)
(* removal; the job is run only after a successful upload and on the       *)
(* location uploaded to, the removal only after the job has ended          *)
C9_PhaseOrder ==
    /\ [i \in 1..Len(trace) |-> trace[i].op]
           = SubSeq(<<"archive", "upload", "run_job", "remove">>, 1, Len(trace))
    /\ \A i \in EventsOf("run_job") :
           \E j \in EventsOf("upload") :
               /\ j < i
               /\ trace[j].outcome = "ok"
               /\ trace[i].arg = <<"--context=">> \o trace[j].arg
    /\ \A i \in EventsOf("remove") :
           /\ \E j \in EventsOf("run_job") : j < i
           /\ job # NoJob

C9_Witness ==
    /\ Len(trace) = 4
    /\ trace[4].op = "remove"
    /\ trace[3].outcome = "timeout"

(* C10: the scratch directory exists from the start of the build until the *)
(* call exits, and is gone once the call has exited, however it exited     *)
C10_ScratchDirScoped ==
    /\ pc \in {"generate", "upload", "run_job", "remove"} => TempDirName \in local_build_dir
    /\ pc \in {"pythonop"} \cup Exited => local_build_dir = {}

C10_Witness ==
    /\ pc = "raised"
    /\ err = "remove_gcs_blob failed"
    /\ local_build_dir = {}
    /\ EventsOf("archive") # {}

----------------------------------------------------------------------------
(* Builds interleaved in one process *)

Started(c) == calls[c].builder # 0

Entered(c) == calls[c].dir # ""

(* C11: any two build calls of one process, interleaved in any way and     *)
(* possibly made on the same ImageBuilder object, have distinct staged     *)
(* archive locations and distinct local archive paths, and no call's       *)
(* upload or removal overwrites or removes the staged archive of another   *)
(* call that is still in progress, so that every job builds from the       *)
(* archive of its own call.                                                *)
C11_BuildsIsolated ==
    /\ \A c, d \in Calls :
         (c # d /\ Started(c) /\ Started(d)) => gcs_path_of(c) # gcs_path_of(d)
    /\ \A c, d \in Calls :
         (c # d /\ Entered(c) /\ Entered(d))
            => local_tarball_path(calls[c].dir) # local_tarball_path(calls[d].dir)
    /\ harmed = {}
    /\ \A c \in Calls : calls[c].pc \in {"remove", "returned"} => calls[c].context = c

----------------------------------------------------------------------------
(* The indentation level of a CodeGenerator *)

(* C12: after any sequence of begin, indent, dedent, writeline and end     *)
(* calls the level is never negative and equals the number of indent       *)
(* calls minus the number of dedent calls that returned, counted since     *)
(* construction or the last begin; a dedent call at level 0 raises and     *)
(* leaves the level and the line buffer as they were; a writeline appends  *)
(* exactly one line, which is the level copies of the indent unit followed *)
(* by the line written.                                                     *)
C12_IndentationLevel ==
    LET h == codegen_hist
        code == codegen.code
    IN  /\ codegen.level >= 0
        /\ codegen.level = h.indents - h.dedents
        /\ (h.last = "dedent" /\ h.prev_level = 0)
              => /\ h.raised
                 /\ codegen.level = h.prev_level
                 /\ code = h.prev_code
        /\ h.last = "writeline"
              => /\ ~ h.raised
                 /\ codegen.level = h.prev_level
                 /\ Len(code) = Len(h.prev_code) + 1
                 /\ SubSeq(code, 1, Len(h.prev_code)) = h.prev_code
                 /\ Len(Last(code)) = codegen.level + Len(h.line)
                 /\ \A i \in 1..codegen.level : Last(code)[i] = codegen.indentation
                 /\ SubSeq(Last(code), codegen.level + 1, Len(Last(code))) = h.line

(* a dedent has just failed at level 0, after the level had been raised, *)
(* an indented line written and the level lowered again                  *)
C12_Witness ==
    /\ codegen_hist.last = "dedent"
    /\ codegen_hist.raised
    /\ codegen_hist.indents >= 1
    /\ codegen_hist.dedents >= 1
    /\ codegen.code # <<>>
    /\ codegen.code[1][1] = codegen.indentation

----------------------------------------------------------------------------
(* The argument template against the synthesized parser *)

(* int(s) for the nargs written by str(len(...)) *)
NargsOf(s) == CHOOSE k \in 0..(MaxFields + 1) : ToString(k) = s

(* argparse refuses a positional argument with nargs=0: add_argument raises *)
ParserBuilds(parsed) == \A i \in 1..Len(parsed) : NargsOf(parsed[i].nargs) # 0

(* the command-line values the parser consumes, in order, each under the *)
(* name of the argument that takes it                                    *)
ConsumedValues(parsed) ==
    Flatten([i \in 1..Len(parsed) |-> Rep(parsed[i].name, NargsOf(parsed[i].nargs))])

IsOutputFile(name) == name \in {"_output_file", "_output_files"}

(* C13: for a function that passed validation, the argument template of   *)
(* the descriptor has one input-value placeholder per declared parameter,  *)
(* in order, then one output-path placeholder per output (`output`, or the *)
(* fields of the named tuple in order), and the parser of the synthesized  *)
(* program consumes as many command-line values, in the same order: the    *)
(* parameters' values by name, then the output files.                      *)
C13_TemplateMatchesParser ==
    (pc = "returned" /\ entrypoint.applied /\ entrypoint.err = "none") =>
        LET f == inp.component_func
            params == DeclaredParams(f)
            outs == IF f.ret.kind = "namedtuple"
                    THEN [k \in 1..Len(f.ret.fields) |-> FieldName(k)]
                    ELSE <<"output">>
            template == component_spec.args
            parsed == ParsedArguments(entrypoint.code.cli)
            consumed == ConsumedValues(parsed)
        IN  /\ template = [i \in 1..Len(params) |-> <<"InputValuePlaceholder", params[i].name>>]
                          \o [k \in 1..Len(outs) |-> <<"OutputPathPlaceholder", outs[k]>>]
            /\ ParserBuilds(parsed)
            /\ Len(consumed) = Len(template)
            /\ \A i \in 1..Len(template) :
                   IF template[i][1] = "InputValuePlaceholder"
                   THEN consumed[i] = template[i][2]
                   ELSE IsOutputFile(consumed[i])

====
